---- MODULE Spec2Model ----
(***************************************************************************)
(* Model of src/src/main.js: the solar-system scene, its control panel and *)
(* the per-frame update callback renderLoop.                               *)
(*                                                                         *)
(* Numbers are fixed-point integers:                                       *)
(*   planet angles      1e-9 rad   (planet speeds have 8 decimals and are  *)
(*                                  multiplied by 0.2)                     *)
(*   moon phases        1e-8 rad                                           *)
(*   moon positions     1e-5 scene units (distance in 0.1, sine in 1e-4)   *)
(*   ring rotation      1e-3 rad,  belt rotation 1e-2 rad                  *)
(*   dust lengths       1e-2 scene units (the dust speed slider step)      *)
(*   dust rotation      1e-3 rad,  dust scale 1e-4                         *)
(*   label size         1e-1 (the label size slider step)                  *)
(*   dt                 whole seconds                                      *)
(* Math.random() is a draw k / RandDen, k in 0 .. RandDen-1; the draws of  *)
(* one construction or one frame form the stream Rnd(seed, 0), Rnd(seed,   *)
(* 1), ... of a nondeterministically chosen seed.                          *)
(***************************************************************************)
EXTENDS Integers, Sequences, FiniteSets

VARIABLES
    params,       \* the panel-bound settings object
    created,      \* per planet: mesh self-rotation, orbit group, tilt group, moons
    orbits,       \* scene.userData.orbits: visibility of each orbit line
    ringRotY,     \* saturnMesh.userData.ring.rotation.y
    beltRotY,     \* scene.userData.asteroidBelt.rotation.y
    fields,       \* every dust field ever built by createSpacePebbles, by identity
    spaceDust,    \* scene.userData.spaceDust: identity of the current dust field
    labels,       \* scene.userData._labels: per planet label state
    camera,       \* camera orientation and the pending damping of the controls
    dt,           \* the delta the clock returned to the last frame
    frames,       \* number of executions of renderLoop so far
    inputs,       \* number of panel / pointer / window events delivered so far
    canvas,       \* whether document.querySelector('#canvas') finds an element
    boot,         \* where the module's top level stands: "kickoff", "running", "failed"
    raf,          \* frame callbacks requested from the host and not yet run
    resizeListeners, \* 'resize' listeners registered on the window
    scene,        \* which optional parts exist: the belt, the label list, the ring
    thrown,       \* whether an execution of renderLoop has ended in a TypeError
    window,       \* the host window: innerWidth, innerHeight, devicePixelRatio
    viewport,     \* the renderer (if created), its size and pixel ratio, camera.aspect
    failed,       \* the assets whose load has failed
    log           \* the console.error calls made by the program, by asset

hostVars == <<canvas, window, viewport, failed, log, scene>>

vars == <<params, created, orbits, ringRotY, beltRotY, fields, spaceDust,
          labels, camera, dt, frames, inputs, canvas, boot, raf, resizeListeners,
          scene, thrown, window, viewport, failed, log>>

----------------------------------------------------------------------------
(* Bounds of the model.                                                    *)

MaxFrames == 3
MaxInputs == 2
RandDen == 4

DtChoices == {0, 1}
\* delta times of a host that stalls (a tab left in the background): 12 s
LongDtChoices == {0, 1, 12}
TimeScaleChoices == {0, 1, 2}
DustCountChoices == {1, 2}
DustSpeedChoices == {0, 60, 500}
DustSpreadChoices == {500, 4000}
DustSizeChoices == {15, 20}
LabelSizeChoices == {6, 10}
Seeds == {0, 2}
InitWindow == [w |-> 800, h |-> 600, dpr |-> 1]
\* assets whose load may fail: two of the twelve 2D textures (all loaded by
\* the same one-argument call) and the background cubemap
Textures == {"sunTexture", "rockTexture"}
Assets == Textures \cup {"backgroundCubeMap"}
Windows == {InitWindow, [w |-> 1200, h |-> 600, dpr |-> 3]}

----------------------------------------------------------------------------
(* Math helpers.                                                           *)

Abs(x) == IF x < 0 THEN -x ELSE x

\* Math.random(): the j-th draw of the stream of `seed`, as a numerator over RandDen.
Rnd(seed, j) == (seed + 3 * j) % RandDen

\* rnd(a, b) = a + Math.random() * (b - a), for the draw k / RandDen.
rnd(k, a, b) == a + (k * (b - a)) \div RandDen

TwoPi8 == 628318531
HalfPi4 == 15708
Pi4 == 31416
SinScale == 10000

\* Taylor series of the sine on [0, pi/2], argument and result in 1e-4.
SinQ(x) ==
    LET x2 == (x * x) \div SinScale
        t3 == ((x * x2) \div SinScale) \div 6
        t5 == ((t3 * x2) \div SinScale) \div 20
        t7 == ((t5 * x2) \div SinScale) \div 42
        t9 == ((t7 * x2) \div SinScale) \div 72
    IN  x - t3 + t5 - t7 + t9

\* sine of an angle of 1e-4 rad in [0, 2 pi + pi/2], result in 1e-4.
Sin4(x) ==
    LET y == IF x >= 2 * Pi4 THEN x - 2 * Pi4 ELSE x
    IN  IF y <= HalfPi4 THEN SinQ(y)
        ELSE IF y <= Pi4 THEN SinQ(Pi4 - y)
        ELSE IF y <= Pi4 + HalfPi4 THEN -SinQ(y - Pi4)
        ELSE -SinQ(2 * Pi4 - y)

\* A moon phase is a number of 1e-8 rad that outgrows 32 bits within a few
\* frames, so it is held as whole radians and a remainder below one radian
\* (in 1e-8 rad): the phase is rad * Rad8 + frac.
Rad8 == 100000000

\* the phase of v units of 1e-8 rad
Phase(v) == [rad |-> v \div Rad8, frac |-> v % Rad8]

\* a + b
PhaseAdd(a, b) ==
    LET f == a.frac + b.frac
    IN  [rad |-> a.rad + b.rad + f \div Rad8, frac |-> f % Rad8]

\* speed * n, for a speed in 1e-8 rad/s and a small natural n
PhaseTimes(speed, n) ==
    LET sl == speed % Rad8
        hi == (sl \div 10000) * n
        lo == (hi % 10000) * 10000 + (sl % 10000) * n
    IN  [rad |-> (speed \div Rad8) * n + hi \div 10000 + lo \div Rad8,
         frac |-> lo % Rad8]

\* the phase reduced to [0, 2 pi), in 1e-8 rad: k whole turns are taken off,
\* k = rad / 6.29 cut, which is the number of whole turns or one less
PhaseMod(a) ==
    LET k == (a.rad * 100) \div 629
        r == (a.rad - (TwoPi8 \div Rad8) * k) * Rad8 + (a.frac - (TwoPi8 % Rad8) * k)
    IN  IF r < TwoPi8 THEN r ELSE r - TwoPi8

\* Math.sin and Math.cos of a phase (phases are never negative here); the
\* reduced phase, cut to 1e-4 rad, is computed once and the series applied to it.
MathSin(a) == CHOOSE s \in {Sin4(x) : x \in {PhaseMod(a) \div 10000}} : TRUE
MathCos(a) == CHOOSE s \in {Sin4(x + HalfPi4) : x \in {PhaseMod(a) \div 10000}} : TRUE

----------------------------------------------------------------------------
(* Static configuration.                                                   *)

\* The planets array: speed in 1e-9 rad/s, tilt in 1e-3 degrees, moon distance
\* in 0.1 scene units, moon speed in 1e-8 rad/s.
planets == <<
    [name |-> "Mercury", speed |-> 20760500, tilt |-> 34, moons |-> << >>],
    [name |-> "Venus", speed |-> 8127600, tilt |-> 177300, moons |-> << >>],
    [name |-> "Earth", speed |-> 5000000, tilt |-> 23500, moons |-> <<
        [name |-> "Moon", distance |-> 25, speed |-> 1500000] >>],
    [name |-> "Mars", speed |-> 2811850, tilt |-> 25200, moons |-> <<
        [name |-> "Phobos", distance |-> 11, speed |-> 128473354],
        [name |-> "Deimos", distance |-> 16, speed |-> 32448931] >>],
    [name |-> "Jupiter", speed |-> 421440, tilt |-> 3100, moons |-> <<
        [name |-> "Io", distance |-> 32, speed |-> 2306162],
        [name |-> "Europa", distance |-> 45, speed |-> 1155051],
        [name |-> "Ganymede", distance |-> 65, speed |-> 322284],
        [name |-> "Callisto", distance |-> 90, speed |-> 134651] >>],
    [name |-> "Saturn", speed |-> 169640, tilt |-> 26700, moons |-> <<
        [name |-> "Titan", distance |-> 40, speed |-> 128921],
        [name |-> "Rhea", distance |-> 24, speed |-> 361402] >>],
    [name |-> "Uranus", speed |-> 59500, tilt |-> 97800, moons |-> <<
        [name |-> "Titania", distance |-> 28, speed |-> 4707443],
        [name |-> "Oberon", distance |-> 42, speed |-> 3044121] >>],
    [name |-> "Neptune", speed |-> 30300, tilt |-> 28300, moons |-> <<
        [name |-> "Triton", distance |-> 30, speed |-> 6973456] >> ] >>

Planets == 1 .. Len(planets)
MoonsOf(p) == 1 .. Len(planets[p].moons)

\* The params object as the module's top level leaves it.  The dust count is
\* scaled down to the instances the model tracks (DustCountChoices).
InitParams ==
    [showOrbits |-> TRUE, timeScale |-> 1,
     spaceDustEnabled |-> TRUE, spaceDustCount |-> 1, spaceDustSpeed |-> 60,
     spaceDustSize |-> 15, spaceDustSpread |-> 4000,
     spaceDustMinScale |-> 500, spaceDustMaxScale |-> 2200,
     spaceDustRotSpeed |-> 1200,
     labelsEnabled |-> TRUE, labelSize |-> 6]

DustNear == 200
DustFar == 6000

----------------------------------------------------------------------------
(* Construction.                                                           *)

\* tiltRad = tilt * Math.PI / 180, from 1e-3 degrees to 1e-6 rad, rounded to
\* the nearest unit: pi / 180 = 0.0174532925199, taken as 17 + 0.4532 +
\* 0.00009252 units per 1e-3 degree so that every product fits 32 bits.
\* a tilt left in degrees
TiltDegrees(tilt) == tilt
TiltRad(tilt) ==
    LET A == tilt * 4532
        B == tilt * 9252
    IN  tilt * 17 + A \div 10000
          + ((A % 10000) * 10000 + B + 50000000) \div 100000000

\* A moon as attached to its planet: placed on local +X, phase = random * 2 pi.
\* The k-th moon of the scene takes the k-th draw of the stream.
MoonIndex(p, m) ==
    LET Before[q \in 0 .. Len(planets)] ==
            IF q = 0 THEN 0 ELSE Before[q - 1] + Len(planets[q].moons)
    IN  Before[p - 1] + m - 1

buildMoon(p, m, seed) ==
    [angle |-> Phase(Rnd(seed, MoonIndex(p, m)) * (TwoPi8 \div RandDen)),
     x |-> planets[p].moons[m].distance * SinScale,
     y |-> 0,
     z |-> 0]

\* buildPlanetWithTilt plus the moon attachment loop.
buildPlanetWithTilt(p, seed) ==
    [meshRotY |-> 0,
     orbitRotY |-> 0,
     tiltRotZ |-> TiltRad(planets[p].tilt),
     moons |-> [m \in MoonsOf(p) |-> buildMoon(p, m, seed)]]

\* createSpacePebbles: nine draws per instance, in the order of the code
\* (x, y, z, scale, three for the axis, rotSpeed, rotAngle).
RotSpeedOr(v) == IF v = 0 THEN 1200 ELSE v

pebblePos(seed, i, spread, near, far) ==
    [x |-> rnd(Rnd(seed, 9 * (i - 1)), -(spread \div 2), spread \div 2),
     y |-> rnd(Rnd(seed, 9 * (i - 1) + 1), -(spread \div 2), spread \div 2),
     z |-> -near - (Rnd(seed, 9 * (i - 1) + 2) * (far - near)) \div RandDen]

createSpacePebbles(seed, count, spread, near, far, sMin, sMax) ==
    LET pos == [i \in 1 .. count |-> pebblePos(seed, i, spread, near, far)]
        scale == [i \in 1 .. count |-> rnd(Rnd(seed, 9 * (i - 1) + 3), sMin, sMax)]
        rotSpeed == [i \in 1 .. count |->
                        rnd(Rnd(seed, 9 * (i - 1) + 7), 300,
                            RotSpeedOr(params.spaceDustRotSpeed))]
        rotAngle == [i \in 1 .. count |->
                        (Rnd(seed, 9 * (i - 1) + 8) * (TwoPi8 \div 100000)) \div RandDen]
    IN  [pos |-> pos, scale |-> scale, rotSpeed |-> rotSpeed, rotAngle |-> rotAngle,
         matrix |-> [i \in 1 .. count |->
                        [pos |-> pos[i], angle |-> rotAngle[i], scale |-> scale[i]]],
         spread |-> spread, near |-> near, far |-> far, sMin |-> sMin, sMax |-> sMax,
         visible |-> TRUE, attached |-> TRUE, disposed |-> 0]

\* makeLabelMesh: a fresh Text of the given size, synced once.
IdentityQuat == 0
makeLabelMesh(size) ==
    [visible |-> TRUE, quaternion |-> IdentityQuat, fontSize |-> size, syncs |-> 1]

LabelSizeOr(v) == IF v = 0 THEN 6 ELSE v

\* Camera orientations are identities 1 .. 3; 1 is the lookAt(0,0,0) pose.
CameraQuats == 1 .. 3
NextQuat(q) == (q % 3) + 1

\* camera.aspect = innerWidth / innerHeight, in 1e-3
Aspect(win) == (win.w * 1000) \div win.h
\* Math.min(window.devicePixelRatio, 2)
PixelRatio(win) == IF win.dpr < 2 THEN win.dpr ELSE 2

\* new THREE.WebGLRenderer(...), setPixelRatio, setSize; the camera was given
\* the aspect of the window when it was built
createRenderer(win) ==
    [renderer |-> TRUE, width |-> win.w, height |-> win.h,
     pixelRatio |-> PixelRatio(win), aspect |-> Aspect(win)]

\* the camera alone: the canvas check threw before the renderer was created
NoRenderer(win) ==
    [renderer |-> FALSE, width |-> 0, height |-> 0, pixelRatio |-> 0,
     aspect |-> Aspect(win)]

\* a check that lets the top level run on without a canvas
CanvasCheckIgnored(present) == "kickoff"

\* if (!canvas) throw ...: with a canvas the top level runs on to the call
\* renderLoop() that starts the loop; without one it stops at the check.
CanvasCheck(present) == IF present THEN "kickoff" ELSE "failed"

\* The state the module's top level reaches before it calls renderLoop(), or,
\* without a canvas, the state in which the canvas check has thrown.
\* the ring is attached to the mesh of the planet named "Saturn"
HasRing(p) == planets[p].name = "Saturn"
\* The optional parts as the top level builds them: the belt is always stored on
\* the scene, addPlanetLabels always sets the label list, Saturn gets its ring.
BuiltScene ==
    [asteroidBelt |-> TRUE, labels |-> TRUE, ring |-> \E p \in Planets : HasRing(p)]
\* Every combination of present and absent optional parts.
Scenes == [asteroidBelt : BOOLEAN, labels : BOOLEAN, ring : BOOLEAN]

\* The state the top level leaves for the first frame, for a scene of `scenes`
\* with a dust field built or not (`dusts`).
Construct(scenes, dusts) ==
    /\ params = InitParams
    /\ canvas \in BOOLEAN
    /\ boot = CanvasCheck(canvas)
    /\ window = InitWindow
    /\ scene \in scenes
    /\ thrown = FALSE
    /\ \E seed \in Seeds, dust \in dusts :
        /\ created = [p \in Planets |-> buildPlanetWithTilt(p, seed)]
        /\ IF boot = "kickoff" /\ dust
           THEN /\ fields = << createSpacePebbles(seed, InitParams.spaceDustCount,
                          InitParams.spaceDustSpread, DustNear, DustFar,
                          InitParams.spaceDustMinScale, InitParams.spaceDustMaxScale) >>
                /\ spaceDust = 1
           ELSE /\ fields = << >>
                /\ spaceDust = 0
    /\ viewport = IF boot = "kickoff" THEN createRenderer(window) ELSE NoRenderer(window)
    /\ raf = 0
    /\ resizeListeners = 0
    /\ failed = {}
    /\ log = {}
    /\ orbits = [p \in Planets |-> TRUE]
    /\ ringRotY = 0
    /\ beltRotY = 0
    /\ labels = IF scene.labels
                THEN [p \in Planets |-> makeLabelMesh(LabelSizeOr(InitParams.labelSize))]
                ELSE << >>
    /\ camera = [quaternion |-> 1, damping |-> FALSE]
    /\ dt = 0
    /\ frames = 0
    /\ inputs = 0

\* The program: every optional part is built before the first frame.
Init == Construct({BuiltScene}, {TRUE})
\* renderLoop's inputs widened to scenes in which optional parts were not built.
InitParts == Construct(Scenes, BOOLEAN)

----------------------------------------------------------------------------
(* The frame callback.                                                     *)

\* const t = params.timeScale ?? 1.0 (timeScale is never null or undefined).
TimeMul == params.timeScale

\* obj.mesh.rotateY(p.speed * dt * t): the angle added about the mesh's own Y axis.
SpinStep(p, d, t) == planets[p].speed * d * t

\* a revolution that forgets the 0.2 factor
OrbitStepNoFifth(p, d, t) == planets[p].speed * d * t

\* obj.orbit.rotation.y += p.speed * dt * 0.2 * t
OrbitStep(p, d, t) == (((planets[p].speed * d) * 2) \div 10) * t

\* mo.angle += mo.speed * dt * t, then the position from the new angle.
MoonStep(p, m, d, t) == PhaseTimes(planets[p].moons[m].speed, d * t)

MoonPosX(angle, distance) == MathSin(angle) * distance
\* a Z coordinate taken from the sine as well
MoonPosZSine(angle, distance) == MathSin(angle) * distance
MoonPosZ(angle, distance) == MathCos(angle) * distance

updateMoon(mo, p, m, d, t) ==
    LET a == PhaseAdd(mo.angle, MoonStep(p, m, d, t))
    IN  [mo EXCEPT !.angle = a,
                   !.x = MoonPosX(a, planets[p].moons[m].distance),
                   !.z = MoonPosZ(a, planets[p].moons[m].distance)]

\* a planet loop that passes over the planets without moons
updatePlanetWithMoons(obj, p, d, t) ==
    IF MoonsOf(p) = {} THEN obj
    ELSE [obj EXCEPT !.meshRotY = @ + SpinStep(p, d, t),
                     !.orbitRotY = @ + OrbitStep(p, d, t),
                     !.moons = [m \in MoonsOf(p) |-> updateMoon(obj.moons[m], p, m, d, t)]]

\* created.forEach: spin, orbit, then the moons among the mesh's children
\* (none for a planet without moons)
updatePlanet(obj, p, d, t) ==
    [obj EXCEPT !.meshRotY = @ + SpinStep(p, d, t),
                !.orbitRotY = @ + OrbitStep(p, d, t),
                !.moons = [m \in MoonsOf(p) |-> updateMoon(obj.moons[m], p, m, d, t)]]

\* a ring spin that ignores the time scale
RingStepUnscaled(t) == 1
\* created.find(c => c.data.name === 'Saturn')
saturnObj == {p \in Planets : planets[p].name = "Saturn"}
\* if (saturnObj && saturnObj.mesh.userData.ring)
RingPresent == saturnObj # {} /\ scene.ring
\* a belt update that does not look for the belt first
BeltCheckDropped == TRUE
\* if (scene.userData.asteroidBelt)
BeltPresent == scene.asteroidBelt
\* const dustObj = scene.userData.spaceDust; if (dustObj)
DustPresent == spaceDust # 0
\* if (scene.userData._labels): an empty list passes, a missing one does not
LabelsPresent == scene.labels

\* a ring spin scaled by the delta time of the frame before
RingStepByDelta(t) == t * dt
\* saturnObj.mesh.userData.ring.rotation.y += 0.001 * t
RingStep(t) == t
\* scene.userData.asteroidBelt.rotation.y += 0.02 * dt * t
BeltStep(d, t) == 2 * d * t

\* params.spaceDustSpeed || 0.6
DustSpeedOr(v) == IF v = 0 THEN 60 ELSE v
\* dtMove = (params.timeScale ?? 1) * (params.spaceDustSpeed || 0.6) * dt
DtMove(d) == (params.timeScale * DustSpeedOr(params.spaceDustSpeed)) * d

\* a respawn that forgets to centre the draw
LateralUncentred(k, spread) == (k * spread) \div RandDen

\* (Math.random() - 0.5) * spread
Lateral(k, spread) == (k * spread) \div RandDen - spread \div 2

\* a recycle test against the camera plane instead of the near bound
CrossedAtCamera(z, near) == z > 0
\* if (dustObj.pos[i].z > -dustObj.near)
Crossed(z, near) == z > -near

\* one pass of the loop body over instance i of dust field f
movePebble(f, i, d, seed) ==
    LET z1 == f.pos[i].z + DtMove(d)
    IN  IF Crossed(z1, f.near)
        THEN [x |-> Lateral(Rnd(seed, 2 * (i - 1)), f.spread),
              y |-> Lateral(Rnd(seed, 2 * (i - 1) + 1), f.spread),
              z |-> -f.far]
        ELSE [f.pos[i] EXCEPT !.z = z1]

\* a dust update that never turns an instance
spinPebbleStill(f, i, d) == f.rotAngle[i]
\* rotAngles[i] += rotSpeeds[i] * dt
spinPebble(f, i, d) == f.rotAngle[i] + f.rotSpeed[i] * d

updatePebbles(f, d, seed) ==
    LET n == Len(f.pos)
        pos == [i \in 1 .. n |-> movePebble(f, i, d, seed)]
        ang == [i \in 1 .. n |-> spinPebble(f, i, d)]
    IN  [f EXCEPT !.pos = pos, !.rotAngle = ang,
                  !.matrix = [i \in 1 .. n |->
                                 [pos |-> pos[i], angle |-> ang[i], scale |-> f.scale[i]]]]

\* a test that looks at the instance count alone
NeedsRebuildCountOnly(f) == params.spaceDustCount # Len(f.pos)

\* a test that asks for a new field on every frame
NeedsRebuildAlways(f) == TRUE

\* the "live changes" test at the end of the enabled branch
NeedsRebuild(f) ==
    \/ params.spaceDustCount # Len(f.pos)
    \/ params.spaceDustSpread # f.spread
    \/ params.spaceDustMinScale # f.sMin
    \/ params.spaceDustMaxScale # f.sMax

\* a dispose that frees geometry and material and leaves the mesh on the camera
disposeKeepAttached(f) == [f EXCEPT !.disposed = @ + 1]
\* dustObj.dispose(): detach from the camera, dispose geometry and material
dispose(f) == [f EXCEPT !.attached = FALSE, !.disposed = @ + 1]

\* the whole "Space Pebbles update" block: the new heap of fields and the
\* identity it leaves in scene.userData.spaceDust
\* a dust block that ignores the toggle
DustAlwaysEnabled == TRUE
\* const enabled = !!params.spaceDustEnabled
DustEnabled == params.spaceDustEnabled

updateDust(d, seed) ==
    LET f0 == [fields[spaceDust] EXCEPT !.visible = DustEnabled]
    IN  IF ~DustEnabled
        THEN [heap |-> [fields EXCEPT ![spaceDust] = f0], cur |-> spaceDust]
        ELSE LET f1 == updatePebbles(f0, d, seed)
             IN  IF NeedsRebuild(f1)
                 THEN [heap |-> Append([fields EXCEPT ![spaceDust] = dispose(f1)],
                                    createSpacePebbles(seed, params.spaceDustCount,
                                        params.spaceDustSpread, DustNear, DustFar,
                                        params.spaceDustMinScale,
                                        params.spaceDustMaxScale)),
                       cur |-> Len(fields) + 1]
                 ELSE [heap |-> [fields EXCEPT ![spaceDust] = f1], cur |-> spaceDust]

\* the "labels update" block for one label
LabelsShown == params.labelsEnabled

\* a resync on every frame
NeedsSyncAlways(l, wantSize) == TRUE
\* label.fontSize && Math.abs(label.fontSize - wantSize) > 0.001
NeedsSync(l, wantSize) == l.fontSize # 0 /\ Abs(l.fontSize - wantSize) * 100 > 1

\* a billboard that copies the orientation the controls will leave
billboardLate(l) == [l EXCEPT !.quaternion = NextQuat(camera.quaternion)]
\* label.quaternion.copy(camera.quaternion)
billboard(l) == [l EXCEPT !.quaternion = camera.quaternion]

updateLabel(l) ==
    LET l0 == [l EXCEPT !.visible = LabelsShown]
        wantSize == LabelSizeOr(params.labelSize)
    IN  IF ~LabelsShown THEN l0
        ELSE LET l1 == billboard(l0)
             IN  IF NeedsSync(l1, wantSize)
                 THEN [l1 EXCEPT !.fontSize = wantSize, !.syncs = @ + 1]
                 ELSE l1

\* controls.update() with enableDamping and dampingFactor 0.08: after a drag each
\* update turns the camera by the rotation still pending, which shrinks by 8%
\* per update and so outlasts every run of MaxFrames frames.
controlsUpdate(c) ==
    IF c.damping THEN [c EXCEPT !.quaternion = NextQuat(@)] ELSE c

\* a frame that requests two callbacks
requestTwice(pending) == pending + 2
\* window.requestAnimationFrame(renderLoop): one more callback is pending
requestAnimationFrame(pending) == pending + 1

\* The first block of the frame that dereferences a part the scene lacks: 1 the
\* ring, 2 the belt, 3 the dust field, 4 the label list; 0 if every block that
\* is entered finds its part.
Fault ==
    IF RingPresent /\ ~scene.ring THEN 1
    ELSE IF BeltPresent /\ ~scene.asteroidBelt THEN 2
    ELSE IF DustPresent /\ spaceDust = 0 THEN 3
    ELSE IF LabelsPresent /\ ~scene.labels THEN 4
    ELSE 0

\* One execution of renderLoop.  A dereference of a missing part is a TypeError
\* that ends the execution there: the blocks before it have taken effect, the
\* blocks after it, controls.update and requestAnimationFrame have not run.
renderLoop(d, seed) ==
    LET fault == Fault
        done(block) == fault = 0 \/ block < fault
        consumed == IF boot = "running" THEN raf - 1 ELSE raf
    IN  /\ frames < MaxFrames
        /\ dt' = d
        /\ frames' = frames + 1
        /\ created' = [p \in Planets |-> updatePlanet(created[p], p, d, TimeMul)]
        /\ ringRotY' = IF RingPresent /\ done(1) THEN ringRotY + RingStep(TimeMul)
                       ELSE ringRotY
        /\ beltRotY' = IF BeltPresent /\ done(2) THEN beltRotY + BeltStep(d, TimeMul)
                       ELSE beltRotY
        /\ LET r == IF DustPresent /\ done(3) THEN updateDust(d, seed)
                    ELSE [heap |-> fields, cur |-> spaceDust]
           IN  fields' = r.heap /\ spaceDust' = r.cur
        /\ labels' = IF LabelsPresent /\ done(4)
                     THEN [p \in Planets |-> updateLabel(labels[p])]
                     ELSE labels
        /\ camera' = IF fault = 0 THEN controlsUpdate(camera) ELSE camera
        /\ raf' = IF fault = 0 THEN requestAnimationFrame(consumed) ELSE consumed
        /\ thrown' = (thrown \/ fault # 0)
        /\ UNCHANGED <<params, orbits, inputs>>
        /\ UNCHANGED hostVars

----------------------------------------------------------------------------
(* Panel and pointer events.                                               *)

\* a handler that reaches the first orbit line only
showOrbitsFirstOnly(visible) == [p \in Planets |-> IF p = 1 THEN visible ELSE orbits[p]]
\* the 'change' handler of the showOrbits binding
showOrbitsChanged(visible) == [p \in Planets |-> visible]

SetShowOrbits(v) ==
    /\ boot # "kickoff"
    /\ inputs < MaxInputs
    /\ v # params.showOrbits
    /\ params' = [params EXCEPT !.showOrbits = v]
    /\ orbits' = showOrbitsChanged(v)
    /\ inputs' = inputs + 1
    /\ UNCHANGED <<created, ringRotY, beltRotY, fields, spaceDust, labels, camera,
                   dt, frames, boot, raf, resizeListeners, thrown>>
    /\ UNCHANGED hostVars

\* a binding without a handler: the pane writes the field of params
SetParam(field, v) ==
    /\ boot # "kickoff"
    /\ inputs < MaxInputs
    /\ v # params[field]
    /\ params' = [params EXCEPT ![field] = v]
    /\ inputs' = inputs + 1
    /\ UNCHANGED <<created, orbits, ringRotY, beltRotY, fields, spaceDust, labels,
                   camera, dt, frames, boot, raf, resizeListeners, thrown>>
    /\ UNCHANGED hostVars

SetTimeScale == \E v \in TimeScaleChoices : SetParam("timeScale", v)
SetSpaceDustEnabled == \E v \in BOOLEAN : SetParam("spaceDustEnabled", v)
SetSpaceDustCount == \E v \in DustCountChoices : SetParam("spaceDustCount", v)
SetSpaceDustSpeed == \E v \in DustSpeedChoices : SetParam("spaceDustSpeed", v)
\* the Dust Size binding writes params.spaceDustSize, which nothing reads
SetSpaceDustSize == \E v \in DustSizeChoices : SetParam("spaceDustSize", v)
SetSpaceDustSpread == \E v \in DustSpreadChoices : SetParam("spaceDustSpread", v)
SetLabelsEnabled == \E v \in BOOLEAN : SetParam("labelsEnabled", v)
SetLabelSize == \E v \in LabelSizeChoices : SetParam("labelSize", v)

\* a pointer drag handled by OrbitControls: the camera turns and damping is pending
DragCamera ==
    /\ boot = "running"
    /\ inputs < MaxInputs
    /\ camera' = [quaternion |-> NextQuat(camera.quaternion), damping |-> TRUE]
    /\ inputs' = inputs + 1
    /\ UNCHANGED <<params, created, orbits, ringRotY, beltRotY, fields, spaceDust,
                   labels, dt, frames, boot, raf, resizeListeners, thrown>>
    /\ UNCHANGED hostVars

\* the 'resize' listener: camera aspect, projection, pixel ratio, renderer size
onResize(win) ==
    [viewport EXCEPT !.aspect = Aspect(win), !.pixelRatio = PixelRatio(win),
                     !.width = win.w, !.height = win.h]

\* a resize that also puts the ring back to its constructed rotation
ResizeRestartsRing(win) ==
    /\ boot # "kickoff"
    /\ inputs < MaxInputs
    /\ win # window
    /\ window' = win
    /\ viewport' = IF resizeListeners > 0 THEN onResize(win) ELSE viewport
    /\ inputs' = inputs + 1
    /\ ringRotY' = 0
    /\ UNCHANGED <<params, created, orbits, beltRotY, fields, spaceDust,
                   labels, camera, dt, frames, boot, raf, resizeListeners, thrown,
                   canvas, failed, log, scene>>

\* the host resizes the window and delivers 'resize' to the listeners there are
Resize(win) ==
    /\ boot # "kickoff"
    /\ inputs < MaxInputs
    /\ win # window
    /\ window' = win
    /\ viewport' = IF resizeListeners > 0 THEN onResize(win) ELSE viewport
    /\ inputs' = inputs + 1
    /\ UNCHANGED <<params, created, orbits, ringRotY, beltRotY, fields, spaceDust,
                   labels, camera, dt, frames, boot, raf, resizeListeners, thrown,
                   canvas, failed, log, scene>>

\* The error callback the load call of asset a was given: the cubemap's calls
\* console.error('Failed to load cubemap', err); textureLoader.load(url) was
\* given none.
onLoadError(a, logged) ==
    IF a = "backgroundCubeMap" THEN logged \cup {a} ELSE logged

\* the host reports that the load of asset a has failed
LoadFailed(a) ==
    /\ boot # "kickoff"
    /\ inputs < MaxInputs
    /\ a \notin failed
    /\ failed' = failed \cup {a}
    /\ log' = onLoadError(a, log)
    /\ inputs' = inputs + 1
    /\ UNCHANGED <<params, created, orbits, ringRotY, beltRotY, fields, spaceDust,
                   labels, camera, dt, frames, boot, raf, resizeListeners, thrown,
                   canvas, window, viewport, scene>>

\* renderLoop(); window.addEventListener('resize', ...): the first frame is run
\* by the top level itself (the clock's first delta is 0), then the listener
\* is registered.
addResizeListener(n) == n + 1

Kickoff ==
    /\ boot = "kickoff"
    /\ \E seed \in Seeds : renderLoop(0, seed)
    /\ boot' = IF thrown' THEN "failed" ELSE "running"
    /\ resizeListeners' = IF thrown' THEN resizeListeners
                          ELSE addResizeListener(resizeListeners)

\* the host runs a pending frame callback
FrameWith(deltas) ==
    /\ boot = "running"
    /\ raf > 0
    /\ \E d \in deltas, seed \in Seeds : renderLoop(d, seed)
    /\ UNCHANGED <<boot, resizeListeners>>

Frame == FrameWith(DtChoices)

\* a refresh of a host that may have stalled since the frame before
LongFrame == FrameWith(LongDtChoices)

Next ==
    \/ Kickoff
    \/ Frame
    \/ \E win \in Windows : Resize(win)
    \/ \E v \in BOOLEAN : SetShowOrbits(v)
    \/ SetTimeScale
    \/ SetSpaceDustEnabled
    \/ SetSpaceDustCount
    \/ SetSpaceDustSpeed
    \/ SetSpaceDustSize
    \/ SetSpaceDustSpread
    \/ SetLabelsEnabled
    \/ SetLabelSize
    \/ DragCamera
    \/ \E a \in Assets : LoadFailed(a)

Spec == Init /\ [][Next]_vars

\* The program with the host's events alone (refresh, resize, load failures) and
\* an untouched panel. The host runs the top level to its end and runs a
\* pending frame callback at the next display refresh.
NextHost ==
    \/ Kickoff
    \/ Frame
    \/ \E win \in Windows : Resize(win)
    \/ \E a \in Assets : LoadFailed(a)

SpecHost == Init /\ [][NextHost]_vars /\ WF_vars(Kickoff) /\ WF_vars(Frame)

\* The program with a host that may stall between frames, and the panel
\* values the dust update reads.
NextLong ==
    \/ Kickoff
    \/ LongFrame
    \/ SetTimeScale
    \/ SetSpaceDustEnabled
    \/ SetSpaceDustCount
    \/ SetSpaceDustSpeed
    \/ SetSpaceDustSpread

SpecLong == Init /\ [][NextLong]_vars

\* renderLoop run on scenes with optional parts missing, with the panel values
\* its optional blocks read.
NextParts ==
    \/ Kickoff
    \/ Frame
    \/ SetTimeScale
    \/ SetSpaceDustEnabled
    \/ SetLabelsEnabled

SpecParts == InitParts /\ [][NextParts]_vars

----------------------------------------------------------------------------
(* Properties.                                                             *)

FrameStep == frames' = frames + 1

\* b - a of two moon phases, in 1e-8 rad
PhaseDiff(b, a) == (b.rad - a.rad) * Rad8 + (b.frac - a.frac)

\* C1: every frame adds exactly speed*dt*m to each planet's self-rotation and
\* speed*dt*0.2*m to its orbit anchor, with m the time scale as it stands (no
\* clamp); so the accumulated orbital angle is always a fifth of the accumulated
\* self-rotation.
C1_PlanetAdvance ==
    /\ [](\A p \in Planets : 5 * created[p].orbitRotY = created[p].meshRotY)
    /\ [][FrameStep =>
            \A p \in Planets :
                /\ created'[p].meshRotY - created[p].meshRotY
                       = planets[p].speed * dt' * params.timeScale
                /\ 5 * (created'[p].orbitRotY - created[p].orbitRotY)
                       = planets[p].speed * dt' * params.timeScale]_vars

\* Earth (speed 0.005) after the first frame (dt = 0) and one frame with
\* dt = 1, m = 1: +0.005 and +0.001.
C1_Witness ==
    /\ frames = 2 /\ dt = 1 /\ params.timeScale = 1
    /\ created[3].meshRotY = 5000000
    /\ created[3].orbitRotY = 1000000

\* x^2 + z^2 = distance^2 within 1 percent, on positions cut to 1e-3 units.
OnOrbitCircle(mo, distance) ==
    LET X == mo.x \div 100
        Z == mo.z \div 100
        D2 == (distance * 100) * (distance * 100)
    IN  Abs(X * X + Z * Z - D2) <= D2 \div 100

\* C2: a frame advances each moon's phase by moonSpeed*dt*m and puts the moon at
\* (sin(phase)*distance, 0, cos(phase)*distance) of the new phase; in every state,
\* the constructed one included, x^2 + z^2 = distance^2 and y = 0.
C2_MoonOnCircle ==
    /\ [](\A p \in Planets : \A m \in MoonsOf(p) :
            /\ created[p].moons[m].y = 0
            /\ OnOrbitCircle(created[p].moons[m], planets[p].moons[m].distance))
    /\ [][FrameStep =>
            \A p \in Planets : \A m \in MoonsOf(p) :
                LET mo == created[p].moons[m]
                    mo2 == created'[p].moons[m]
                    cfg == planets[p].moons[m]
                IN  /\ PhaseDiff(mo2.angle, mo.angle) = cfg.speed * dt' * params.timeScale
                    /\ mo2.angle.frac \in 0 .. (Rad8 - 1)
                    /\ mo2.x = MathSin(mo2.angle) * cfg.distance
                    /\ mo2.z = MathCos(mo2.angle) * cfg.distance]_vars

\* Phobos has left its constructed place (1.1, 0, 0) after a frame with dt = 1, m = 1.
C2_Witness ==
    /\ frames = 2 /\ dt = 1 /\ params.timeScale = 1
    /\ created[4].moons[1].x # 110000
    /\ created[4].moons[1].z # 0
    /\ created[4].moons[1].x # created[4].moons[1].z

\* The dust field the frame starts with, before and after the step.
DustBefore == fields[spaceDust]
DustAfter == fields'[spaceDust]
Pebbles(f) == 1 .. Len(f.pos)
InSpread(v, spread) == -(spread \div 2) <= v /\ v <= spread \div 2

\* C3: in an enabled dust update every instance whose advanced depth is beyond
\* the near bound (> -near) ends at depth -far with both lateral coordinates
\* within [-spread/2, spread/2] of its field's spread; an instance that did not
\* cross keeps its lateral position.
C3_DustRespawn ==
    [][FrameStep /\ params.spaceDustEnabled =>
        \A i \in Pebbles(DustBefore) :
            LET old == DustBefore.pos[i]
                new == DustAfter.pos[i]
            IN  IF old.z + DtMove(dt') > -DustBefore.near
                THEN /\ new.z = -DustBefore.far
                     /\ InSpread(new.x, DustBefore.spread)
                     /\ InSpread(new.y, DustBefore.spread)
                ELSE new.x = old.x /\ new.y = old.y]_vars

\* An instance of the first field stands at the far bound, where only a respawn
\* puts it (construction never places an instance at -far).
C3_Witness ==
    /\ frames >= 1
    /\ spaceDust = 1 /\ params.spaceDustEnabled
    /\ \E i \in Pebbles(fields[1]) :
        /\ fields[1].pos[i].z = -fields[1].far
        /\ InSpread(fields[1].pos[i].x, fields[1].spread)
        /\ InSpread(fields[1].pos[i].y, fields[1].spread)

\* C4 as stated: in an enabled frame every instance's depth advances by
\* multiplier * dustSpeed * dt before any respawn, for every dust speed of the
\* panel range, 0 included (where depths do not change).
C4_DustAdvanceAsStated ==
    [][FrameStep /\ params.spaceDustEnabled =>
        \A i \in Pebbles(DustBefore) :
            LET adv == DustBefore.pos[i].z
                         + params.timeScale * params.spaceDustSpeed * dt'
            IN  IF adv > -DustBefore.near
                THEN DustAfter.pos[i].z = -DustBefore.far
                ELSE DustAfter.pos[i].z = adv]_vars

\* C5 as stated: after every frame the live field has the configured count and
\* spread, whatever the value of space-dust-enabled.
C5_RebuildAsStated ==
    [][FrameStep =>
        /\ Len(fields'[spaceDust'].pos) = params.spaceDustCount
        /\ fields'[spaceDust'].spread = params.spaceDustSpread]_vars

ConfigDiffers(f) ==
    \/ params.spaceDustCount # Len(f.pos)
    \/ params.spaceDustSpread # f.spread
    \/ params.spaceDustMinScale # f.sMin
    \/ params.spaceDustMaxScale # f.sMax

\* C5 (amended): a frame run with space-dust-enabled true whose configuration
\* differs from what the current field was built with discards that field
\* (detached, disposed) and installs a newly built one, and after every such
\* frame the live field has the configured count, spread and scale bounds; a
\* frame run with space-dust-enabled false keeps the field it found.
C5_RebuildWhenEnabled ==
    [][FrameStep =>
        IF params.spaceDustEnabled
        THEN /\ ~ConfigDiffers(fields'[spaceDust'])
             /\ fields'[spaceDust'].attached
             /\ ConfigDiffers(DustBefore) =>
                    /\ spaceDust' # spaceDust
                    /\ ~DustAfter.attached
                    /\ DustAfter.disposed = 1
             /\ ~ConfigDiffers(DustBefore) => spaceDust' = spaceDust
        ELSE spaceDust' = spaceDust /\ Len(fields') = Len(fields)]_vars

\* A second field with the changed configuration is live and the first is gone.
C5_Witness ==
    /\ frames >= 1 /\ spaceDust = 2
    /\ ~fields[1].attached
    /\ params.spaceDustSpread = 500 /\ fields[2].spread = 500
    /\ fields[1].spread = 4000

\* C6: after every frame the live dust field's visibility equals
\* space-dust-enabled, and a frame run with it false leaves every instance's
\* position and transform as they were.
C6_DustToggle ==
    [][FrameStep =>
        /\ fields'[spaceDust'].visible = params.spaceDustEnabled
        /\ ~params.spaceDustEnabled =>
              /\ spaceDust' = spaceDust
              /\ DustAfter.pos = DustBefore.pos
              /\ DustAfter.rotAngle = DustBefore.rotAngle
              /\ DustAfter.matrix = DustBefore.matrix]_vars

\* A frame with dt > 0 has run with the dust disabled: the field is hidden.
C6_Witness ==
    /\ frames >= 1 /\ dt > 0 /\ params.timeScale > 0
    /\ ~params.spaceDustEnabled
    /\ ~fields[spaceDust].visible

AllMoons == {<<p, m>> \in Planets \X (1 .. 4) : m \in MoonsOf(p)}

\* C7 as stated: a frame with time-scale 0 leaves every advancing angle as it
\* was: planet self-rotation, orbital angle, moon phase, ring rotation, belt
\* rotation and dust instance rotation phase.
C7_TimeScaleAsStated ==
    [][FrameStep /\ params.timeScale = 0 =>
        /\ \A p \in Planets :
              /\ created'[p].meshRotY = created[p].meshRotY
              /\ created'[p].orbitRotY = created[p].orbitRotY
        /\ \A pm \in AllMoons :
              created'[pm[1]].moons[pm[2]].angle = created[pm[1]].moons[pm[2]].angle
        /\ ringRotY' = ringRotY
        /\ beltRotY' = beltRotY
        /\ DustAfter.rotAngle = DustBefore.rotAngle]_vars

\* C7 (amended): in every frame the planets' self-rotation and orbital angle,
\* the moon phases, the ring rotation and the belt rotation advance by
\* time-scale times their advance at time-scale 1 (so not at all at 0); the
\* dust instance rotation phase is not scaled: in an enabled frame it advances
\* by rotSpeed * dt whatever the time-scale.
C7_TimeScaleAngles ==
    [][FrameStep =>
        LET t == params.timeScale
        IN  /\ \A p \in Planets :
                  /\ created'[p].meshRotY - created[p].meshRotY
                        = t * (planets[p].speed * dt')
                  /\ created'[p].orbitRotY - created[p].orbitRotY
                        = t * ((planets[p].speed * dt' * 2) \div 10)
            /\ \A pm \in AllMoons :
                  PhaseDiff(created'[pm[1]].moons[pm[2]].angle,
                            created[pm[1]].moons[pm[2]].angle)
                        = t * (planets[pm[1]].moons[pm[2]].speed * dt')
            /\ ringRotY' - ringRotY = t
            /\ beltRotY' - beltRotY = t * (2 * dt')
            /\ params.spaceDustEnabled =>
                  \A i \in Pebbles(DustBefore) :
                      DustAfter.rotAngle[i]
                          = DustBefore.rotAngle[i] + DustBefore.rotSpeed[i] * dt']_vars

\* After the first frame (time-scale 1, dt = 0) one frame has run with
\* time-scale 0 and dt = 1: ring and belt stand where the first frame left them,
\* the dust (enabled, not rebuilt) has spun.
C7_Witness ==
    /\ frames = 2 /\ dt = 1 /\ params.timeScale = 0
    /\ ringRotY = 1 /\ beltRotY = 0
    /\ params.spaceDustEnabled /\ spaceDust = 1
    /\ fields[1].rotAngle[1] # createSpacePebbles(0, 1, 4000, DustNear, DustFar, 500, 2200).rotAngle[1]
    /\ fields[1].rotAngle[1] # createSpacePebbles(2, 1, 4000, DustNear, DustFar, 500, 2200).rotAngle[1]

\* C8: every orbit curve has the visibility show-orbits has, after any sequence
\* of show-orbits changes and frames; frames never change it.
C8_OrbitsVisible ==
    /\ [](\A p \in Planets : orbits[p] = params.showOrbits)
    /\ [][FrameStep => orbits' = orbits]_vars

\* The orbits were switched off and a frame has run since construction.
C8_Witness ==
    /\ frames >= 1 /\ inputs >= 1
    /\ ~params.showOrbits
    /\ \A p \in Planets : ~orbits[p]

\* C9: after every frame each label's visibility equals labels-enabled, and
\* after a frame with labels enabled each label's orientation is the camera
\* orientation the frame's update found.
C9_Labels ==
    [][FrameStep =>
        \A p \in Planets :
            /\ labels'[p].visible = params.labelsEnabled
            /\ params.labelsEnabled => labels'[p].quaternion = camera.quaternion]_vars

\* After a drag and a frame the labels carry the orientation of the drag, and
\* the damped controls have turned the camera further.
C9_Witness ==
    /\ frames >= 1 /\ params.labelsEnabled
    /\ \A p \in Planets : labels[p].quaternion = 2 /\ labels[p].visible
    /\ camera.quaternion = 3

\* C10: a frame changes a label's size and re-syncs it only if the configured
\* label-size differs from the label's size, and then the label's size is the
\* configured one; a label whose size is the configured one is not re-synced,
\* so frames with an unchanged label-size re-sync a label at most once.
C10_LazyResync ==
    [][FrameStep =>
        \A p \in Planets :
            LET l == labels[p]
                l2 == labels'[p]
            IN  /\ (l2.syncs # l.syncs \/ l2.fontSize # l.fontSize) =>
                      /\ l.fontSize # params.labelSize
                      /\ l2.fontSize = params.labelSize
                      /\ l2.syncs = l.syncs + 1
                /\ l.fontSize = params.labelSize =>
                      l2.syncs = l.syncs /\ l2.fontSize = l.fontSize]_vars

\* Two frames and one label-size change: every label has the new size and was
\* re-synced once after its construction.
C10_Witness ==
    /\ frames = 2 /\ params.labelSize = 10
    /\ \A p \in Planets : labels[p].fontSize = 10 /\ labels[p].syncs = 2

\* C11: when the canvas element is absent the top level has stopped at the
\* canvas check with its error: no renderer exists, no frame has run, no frame
\* callback is pending, no resize listener is registered and no dust field was
\* built; with a canvas the top level never stops there.
C11_NoCanvasHalts ==
    /\ ~canvas =>
          /\ boot = "failed"
          /\ ~viewport.renderer
          /\ frames = 0
          /\ raf = 0
          /\ resizeListeners = 0
          /\ spaceDust = 0 /\ fields = << >>
    /\ canvas => boot # "failed" /\ viewport.renderer

\* Without a canvas the window was resized and a panel value changed after the
\* halt: nothing handled the resize (the camera keeps its constructed aspect)
\* and no frame has run.
C11_Witness ==
    /\ ~canvas /\ boot = "failed"
    /\ inputs = 2
    /\ window # InitWindow
    /\ viewport.aspect = Aspect(InitWindow)
    /\ params # InitParams
    /\ frames = 0 /\ raf = 0

\* C12 as stated: the failure of any asset's load, a 2D texture's or the
\* cubemap's, is logged, and it changes nothing of the frame loop: no frame
\* state, no pending callback.
C12_LoadFailureAsStated ==
    [][\A a \in Assets :
          (a \in failed' /\ a \notin failed) =>
              /\ a \in log'
              /\ frames' = frames /\ raf' = raf /\ boot' = boot]_vars

\* C13 as stated: on every frame, with the dust swarm enabled or disabled, every
\* dust instance's rotation phase advances by its rotation speed times dt.
C13_RotationAsStated ==
    [][FrameStep =>
        \A i \in Pebbles(DustBefore) :
            DustAfter.rotAngle[i]
                = DustBefore.rotAngle[i] + DustBefore.rotSpeed[i] * dt']_vars

\* C13 (amended): on every frame run with the dust swarm enabled every dust
\* instance's rotation phase advances by its own rotation speed times dt; a
\* frame run with the swarm disabled leaves every rotation phase as it was.
C13_RotationWhenEnabled ==
    [][FrameStep =>
        \A i \in Pebbles(DustBefore) :
            DustAfter.rotAngle[i]
                = IF params.spaceDustEnabled
                  THEN DustBefore.rotAngle[i] + DustBefore.rotSpeed[i] * dt'
                  ELSE DustBefore.rotAngle[i]]_vars

\* First frame, an enabled frame with dt = 1, then a disabled frame with
\* dt = 1 (it has hidden the field): the first instance has turned by its
\* speed times 1, not times 2.
C13_Witness ==
    /\ frames = 3 /\ dt = 1 /\ spaceDust = 1
    /\ ~params.spaceDustEnabled /\ ~fields[1].visible
    /\ fields[1].rotSpeed[1] > 0
    /\ \E seed \in Seeds :
          fields[1].rotAngle[1]
              = createSpacePebbles(seed, 1, 4000, DustNear, DustFar, 500, 2200).rotAngle[1]
                    + fields[1].rotSpeed[1]

\* what the frames read and write: the simulation state
simState == <<created, ringRotY, beltRotY, fields, spaceDust, dt, frames, raf,
              labels, camera, params, orbits>>

\* C14: a step in which the window is resized changes the camera aspect, the
\* pixel ratio and the renderer size to those of the new window and nothing a
\* frame reads or writes: planet rotation and orbit angles, moon phases and
\* positions, ring and belt rotation, dust positions, rotation phases and field
\* identity, pending callback; so a run's simulation state is that of the run
\* without its resize steps.
C14_ResizeOnlyViewport ==
    [][window' # window =>
          /\ simState' = simState
          /\ boot = "running" =>
                viewport' = [renderer |-> TRUE, width |-> window'.w,
                             height |-> window'.h,
                             pixelRatio |-> IF window'.dpr < 2 THEN window'.dpr ELSE 2,
                             aspect |-> (window'.w * 1000) \div window'.h]]_vars

\* The window was widened between frames: the renderer and the camera follow
\* the new window, and ring and Earth stand where three frames put them.
C14_Witness ==
    /\ frames = 3 /\ dt = 1 /\ params = InitParams
    /\ window.w = 1200
    /\ viewport.width = 1200 /\ viewport.pixelRatio = 2 /\ viewport.aspect = 2000
    /\ ringRotY = 3
    /\ created[3].meshRotY \in {5000000, 10000000, 15000000}

\* C15: once the loop is started exactly one frame callback is pending between
\* frames and none before the start; every execution of the frame callback uses
\* up the pending one and leaves exactly one pending; no other step changes the
\* number pending (nothing cancels, nothing else schedules); and under fair
\* host refresh the callback runs again and again: from every number of frames
\* run the next frame is eventually run (up to the bound on frames).
C15_OnePendingFrame ==
    /\ [](boot = "running" => raf = 1)
    /\ [](boot # "running" => raf = 0)
    /\ [][FrameStep => raf' = 1 /\ raf = (IF boot = "running" THEN 1 ELSE 0)]_vars
    /\ [][raf' # raf => FrameStep /\ boot = "kickoff"]_vars
    /\ \A n \in 0 .. (MaxFrames - 1) : (canvas /\ frames = n) ~> (frames = n + 1)

\* The loop has run to the bound on frames, with host events in between, and
\* one callback is pending.
C15_Witness ==
    /\ boot = "running" /\ frames = MaxFrames
    /\ raf = 1
    /\ inputs >= 1

\* C16: in every state each planet's tilt-frame rotation is its tilt in degrees
\* times pi / 180 (in 1e-6 rad: 0.034, 177.3, 23.5, 25.2, 3.1, 26.7, 97.8 and
\* 28.3 degrees), the value construction gave it; a frame adds
\* speed*dt*m to the self-rotation and a fifth of that to the orbital angle, and
\* every other step (panel change, drag, resize) leaves both as they were, so
\* neither is ever reset: each is its constructed value 0 plus the sum of the
\* frames' increments (the belt rotation accumulates 0.02*dt*m over the same
\* frames, so 0.02 * self-rotation = speed * belt rotation).
C16_TiltFixedAnglesAccumulate ==
    /\ [](\A p \in Planets :
            /\ created[p].tiltRotZ
                  = << 593, 3094469, 410152, 439823,
                       54105, 466003, 1706932, 493928 >>[p]
            /\ 2 * created[p].meshRotY = planets[p].speed * beltRotY
            /\ created[p].meshRotY >= 0 /\ created[p].orbitRotY >= 0)
    /\ [][\A p \in Planets :
            /\ created'[p].tiltRotZ = created[p].tiltRotZ
            /\ IF FrameStep
               THEN /\ created'[p].meshRotY
                          = created[p].meshRotY + planets[p].speed * dt' * params.timeScale
                    /\ created'[p].orbitRotY
                          = created[p].orbitRotY
                              + ((planets[p].speed * dt' * 2) \div 10) * params.timeScale
               ELSE /\ created'[p].meshRotY = created[p].meshRotY
                    /\ created'[p].orbitRotY = created[p].orbitRotY]_vars

\* Three frames (dt 0, 1, 1 at time-scale 1), a panel change and a resize:
\* Earth's tilt frame stands at 23.5 degrees = 0.410152 rad, its self-rotation
\* at 2 * 0.005 and its orbital angle at 2 * 0.001.
C16_Witness ==
    /\ frames = 3 /\ inputs = 2
    /\ window.w = 1200 /\ params # InitParams /\ params.timeScale = 1
    /\ created[3].tiltRotZ = 410152
    /\ created[3].meshRotY = 10000000
    /\ created[3].orbitRotY = 2000000

\* C17: every frame advances the ring rotation by 0.001 times the multiplier,
\* whatever its dt: the advance is the same for every dt of the same
\* multiplier, and a frame with dt = 0 and a positive multiplier advances it;
\* so after any run at multiplier 1 the ring stands at 0.001 times the number
\* of frames.
C17_RingStepPerFrame ==
    /\ [][FrameStep => ringRotY' = ringRotY + params.timeScale]_vars
    /\ [][FrameStep /\ dt' = 0 /\ params.timeScale > 0 => ringRotY' > ringRotY]_vars
    /\ [](inputs = 0 => ringRotY = frames)

\* Three frames with dt 0, 0 and 1 at multiplier 1: the ring stands at 0.003,
\* as after any three frames, while the belt has advanced for 1 second only.
C17_Witness ==
    /\ frames = 3 /\ inputs = 0 /\ dt = 1
    /\ ringRotY = 3
    /\ beltRotY = 2

\* the fields that are attached to the camera and not disposed
LiveFields == {k \in 1 .. Len(fields) : fields[k].attached /\ fields[k].disposed = 0}

\* C18: a frame whose dust configuration (count, spread, scale bounds) equals
\* what the current field was built with creates no field and disposes none;
\* a frame that builds a field builds exactly one, disposes exactly the field
\* it found (once), and the new field records the configured count, spread and
\* scale bounds, so the next frame without a further change builds nothing; at
\* all times exactly one field is live, and no more fields were ever built than
\* one per panel change after the constructed one.
C18_RebuildOncePerChange ==
    /\ [][FrameStep /\ ~ConfigDiffers(DustBefore) =>
            /\ Len(fields') = Len(fields)
            /\ spaceDust' = spaceDust
            /\ \A k \in 1 .. Len(fields) :
                  /\ fields'[k].disposed = fields[k].disposed
                  /\ fields'[k].attached = fields[k].attached]_vars
    /\ [][FrameStep /\ Len(fields') # Len(fields) =>
            /\ Len(fields') = Len(fields) + 1
            /\ spaceDust' = Len(fields')
            /\ ConfigDiffers(DustBefore)
            /\ DustAfter.disposed = 1 /\ ~DustAfter.attached
            /\ LET new == fields'[spaceDust']
               IN  /\ Len(new.pos) = params.spaceDustCount
                   /\ new.spread = params.spaceDustSpread
                   /\ new.sMin = params.spaceDustMinScale
                   /\ new.sMax = params.spaceDustMaxScale
                   /\ new.attached /\ new.disposed = 0]_vars
    /\ [][Len(fields') # Len(fields) => FrameStep]_vars
    /\ [](canvas => LiveFields = {spaceDust} /\ Len(fields) <= 1 + inputs)
    /\ [](\A k \in 1 .. Len(fields) : fields[k].disposed <= 1)

\* Two panel changes (count, then spread), each followed by a frame: three
\* fields were built in all, the first two are disposed once each, and the
\* third has the configuration of the panel.
C18_Witness ==
    /\ frames = 3 /\ inputs = 2
    /\ Len(fields) = 3 /\ spaceDust = 3
    /\ fields[1].disposed = 1 /\ fields[2].disposed = 1
    /\ Len(fields[2].pos) = 2 /\ fields[2].spread = 4000
    /\ Len(fields[3].pos) = 2 /\ fields[3].spread = 500

\* C19: no frame ends in an error because an optional part is missing.  In a
\* scene with any of the belt, the dust field, the label list and the ring
\* absent, a frame leaves the absent part's state alone and still applies every
\* other update: a planet without moons keeps an empty moon list while it spins
\* and orbits, the moons of the other planets advance, each part that is
\* present is updated, and the frame ends by requesting the next one.
C19_AbsentPartsSkipped ==
    /\ [](~thrown)
    /\ [][FrameStep =>
            /\ \A p \in Planets :
                  /\ created'[p].meshRotY
                        = created[p].meshRotY + planets[p].speed * dt' * params.timeScale
                  /\ 5 * created'[p].orbitRotY = created'[p].meshRotY
                  /\ planets[p].moons = << >> => created'[p].moons = << >>
                  /\ \A m \in MoonsOf(p) :
                        PhaseDiff(created'[p].moons[m].angle, created[p].moons[m].angle)
                            = planets[p].moons[m].speed * dt' * params.timeScale
            /\ ringRotY' = ringRotY + (IF scene.ring THEN params.timeScale ELSE 0)
            /\ beltRotY' = beltRotY
                  + (IF scene.asteroidBelt THEN 2 * dt' * params.timeScale ELSE 0)
            /\ IF spaceDust = 0 THEN spaceDust' = 0 /\ fields' = << >>
               ELSE fields'[spaceDust'].visible = params.spaceDustEnabled
            /\ IF scene.labels
               THEN \A p \in Planets : labels'[p].visible = params.labelsEnabled
               ELSE labels' = << >>
            /\ raf' = 1]_vars
\* three frames have run on a scene without belt, dust field, label list and
\* ring: Mercury (no moons) has spun, Earth's moon has moved on, nothing was
\* thrown and the next frame is requested
C19_Witness ==
    /\ frames = 3 /\ dt = 1 /\ params.timeScale = 1
    /\ ~scene.asteroidBelt /\ ~scene.labels /\ ~scene.ring /\ spaceDust = 0
    /\ created[1].moons = << >>
    /\ created[1].meshRotY = 41521000
    /\ created[3].moons # << >>
    /\ ringRotY = 0 /\ beltRotY = 0 /\ fields = << >> /\ labels = << >>
    /\ ~thrown
    /\ raf = 1
\* three frames have run on a scene that has its ring and label list but
\* neither belt nor dust field: ring and labels were updated all the same
C19_Mixed ==
    /\ frames = 3 /\ dt = 1 /\ params.timeScale = 1
    /\ ~scene.asteroidBelt /\ scene.labels /\ scene.ring /\ spaceDust = 0
    /\ ringRotY = 3 /\ beltRotY = 0
    /\ \A p \in Planets : labels[p].visible
    /\ ~thrown
    /\ raf = 1

\* C20: in every state every instance of every dust field has its depth in
\* [-far, -near] and both lateral coordinates in [-spread/2, spread/2] of the
\* spread its field was built with: after construction, after frames of any
\* dt and after rebuilds; and an enabled frame whose step is longer than the
\* whole depth range (far - near) leaves every instance of the field it found
\* at exactly -far.
C20_DustInBox ==
    /\ [](\A k \in 1 .. Len(fields) : \A i \in Pebbles(fields[k]) :
            /\ -fields[k].far <= fields[k].pos[i].z
            /\ fields[k].pos[i].z <= -fields[k].near
            /\ InSpread(fields[k].pos[i].x, fields[k].spread)
            /\ InSpread(fields[k].pos[i].y, fields[k].spread))
    /\ [][FrameStep /\ params.spaceDustEnabled
              /\ params.timeScale * (IF params.spaceDustSpeed = 0 THEN 60
                                      ELSE params.spaceDustSpeed) * dt'
                   > DustBefore.far - DustBefore.near =>
            \A i \in Pebbles(DustBefore) : DustAfter.pos[i].z = -DustBefore.far]_vars

\* After a stall of 12 s at dust speed 5 (a step of 60 units, longer than the
\* 58 units of depth range) the instance of the first field stands at -far,
\* inside its field's spread.
C20_Witness ==
    /\ frames >= 2 /\ dt = 12
    /\ params.spaceDustEnabled /\ params.spaceDustSpeed = 500 /\ params.timeScale = 1
    /\ spaceDust = 1
    /\ fields[1].pos[1].z = -DustFar
    /\ InSpread(fields[1].pos[1].x, fields[1].spread)

\* C21: once the dust exists, in every state exactly one dust field is
\* attached to the camera and it is the one scene.userData.spaceDust refers
\* to, not disposed; every other field ever built (every replaced one) is
\* detached and was disposed exactly once; and no step changes anything of a
\* field that is disposed: it is not updated and not disposed again.
C21_OneAttachedField ==
    /\ [](canvas =>
            /\ spaceDust \in 1 .. Len(fields)
            /\ {k \in 1 .. Len(fields) : fields[k].attached} = {spaceDust}
            /\ fields[spaceDust].disposed = 0
            /\ \A k \in 1 .. Len(fields) :
                  k # spaceDust => ~fields[k].attached /\ fields[k].disposed = 1)
    /\ [][\A k \in 1 .. Len(fields) :
            fields[k].disposed > 0 => fields'[k] = fields[k]]_vars

\* The spread was changed after the first frame, the second frame replaced
\* the field and the third (dt = 1) updated the new one: the first field is
\* detached and disposed once, the second is attached and has turned.
C21_Witness ==
    /\ frames = 3 /\ dt = 1 /\ inputs = 1
    /\ params.spaceDustEnabled /\ params.spaceDustSpread = 500
    /\ Len(fields) = 2 /\ spaceDust = 2
    /\ ~fields[1].attached /\ fields[1].disposed = 1 /\ fields[1].spread = 4000
    /\ fields[2].attached /\ fields[2].disposed = 0 /\ fields[2].spread = 500
    /\ \A seed \in Seeds :
          fields[2].rotAngle[1]
              # createSpacePebbles(seed, 1, 500, DustNear, DustFar, 500, 2200).rotAngle[1]

====
